---- MODULE Spec2Model ----
(***************************************************************************)
(* Model of merkle-tree-rs (src/src/lib.rs): MerkleTree::build_with_hasher, *)
(* build_internal_nodes, build_upper_level, the three hashing functions,   *)
(* root_hash, root_hash_str and verify.                                    *)
(*                                                                         *)
(* Bytes are naturals in 0..255.  A Hash (Vec<u8>) is a sequence of bytes. *)
(* The digest primitive is the collision-free ideal the claims assume: the *)
(* output of result() is determined by, and determines, the bytes absorbed *)
(* since the last reset().  Blocks all have the same length, so the bytes  *)
(* fed to an internal hash split into left and right in one way only, as   *)
(* they do for the fixed-length digests of a real hash.                    *)
(*                                                                         *)
(* Vectors are indexed from 0 in the code and from 1 here; the variables   *)
(* that hold positions (upper_level_start, position, ...) keep the code's  *)
(* zero-based values and At/WriteSlice do the shift.                       *)
(***************************************************************************)
EXTENDS Integers, Sequences, FiniteSets, TLC

\* ------------------------------------------------------------------ bounds
\* Largest number of input blocks handed to build when one tree is built.
MaxLeaves == 8

\* Largest number of input blocks of each build when two trees are built.
MaxLeavesTwo == 5

\* ---------------------------------------------------------------- constants
LEAF_SIG == 0
INTERNAL_SIG == 1

\* The blocks callers pass (every one BlockLen = 1 byte long): "a" and "b".
Blocks == { <<97>>, <<98>> }

\* What a caller-supplied hasher may have absorbed before it is handed to
\* build_with_hasher; <<>> is the fresh hasher build() makes with Default.
PriorInputs == { <<>>, <<171>> }

RECURSIVE SeqsOfLen(_, _)
SeqsOfLen(S, n) ==
    IF n = 0 THEN { <<>> }
    ELSE { Append(s, x) : s \in SeqsOfLen(S, n - 1), x \in S }

\* Every slice of values a caller may pass: 0 .. MaxLeaves blocks.
InputSequences == UNION { SeqsOfLen(Blocks, n) : n \in 0..MaxLeaves }

InputSequencesTwo == UNION { SeqsOfLen(Blocks, n) : n \in 0..MaxLeavesTwo }

\* Positions a caller may pass to verify: in range and out of range.
Positions == 0..(MaxLeaves + 1)

VARIABLES
    values,                 \* the slice passed to build / build_with_hasher
    supplied,               \* the hasher as it was passed to build_with_hasher
    hasher,                 \* MerkleTree.hasher (the `hasher` argument before)
    nodes,                  \* MerkleTree.nodes
    count_internal_nodes,   \* MerkleTree.count_internal_nodes
    count_leaves,           \* MerkleTree.count_leaves
    parents,                \* build_internal_nodes: local `parents`
    upper_level_start,      \* build_internal_nodes: local
    upper_level_end,        \* build_internal_nodes: local
    pc,                     \* "build", "internal", "loop", "built", "panicked"
    panic_msg,              \* <<>> or the message of the panic that ended the run
    position,               \* argument of the last verify call
    value,                  \* argument of the last verify call, <<>> before
    returned,               \* <<>> or <<b>>: what the last verify call returned
    leaf_read,              \* indices of nodes the last verify call read
    prev                    \* <<>> or <<r>>: input and root of the tree built before

vars == << values, supplied, hasher, nodes, count_internal_nodes, count_leaves, parents,
           upper_level_start, upper_level_end, pc, panic_msg, position, value,
           returned, leaf_read, prev >>

\* ------------------------------------------------------------ vector helpers
\* v[i] for a zero-based index i.
At(v, i) == v[i + 1]

\* v[start..end].clone_from_slice(src), zero-based half-open range.
WriteSlice(v, start, end, src) ==
    [ k \in 1..Len(v) |-> IF start < k /\ k <= end THEN src[k - start] ELSE v[k] ]

\* ------------------------------------------------- crypto::digest::Digest
\* The hasher's state is the input absorbed since the last reset.
reset(h) == [ absorbed |-> <<>> ]

input(h, d) == [ absorbed |-> h.absorbed \o d ]

\* Collision-free digest of the absorbed input.
result(h) == h.absorbed

\* AsBytes::as_bytes for &[u8]: the slice itself.
as_bytes(v) == v

\* ------------------------------------------------------------ hash functions
hash_leaf_node_no_reset(v, h) ==
    LET h2 == input(h, << LEAF_SIG >>)
        h3 == input(h2, as_bytes(v))
    IN  [ hash |-> result(h3), hasher |-> h3 ]

hash_leaf_node(v, h) ==
    LET h1 == reset(h)
        h2 == input(h1, << LEAF_SIG >>)
        h3 == input(h2, as_bytes(v))
    IN  [ hash |-> result(h3), hasher |-> h3 ]

hash_internal_node_with_one_child(left, h) ==
    LET h1 == reset(h)
        h2 == input(h1, << INTERNAL_SIG >>)
        h3 == input(h2, left)
        h4 == input(h3, left)
    IN  [ hash |-> result(h4), hasher |-> h4 ]

hash_internal_node_left_only(left, right, h) ==
    LET h1 == reset(h)
        h2 == input(h1, << INTERNAL_SIG >>)
        h3 == input(h2, left)
        h4 == input(h3, left)
    IN  [ hash |-> result(h4), hasher |-> h4 ]

hash_internal_node(left, right, h) ==
    LET h1 == reset(h)
        h2 == input(h1, << INTERNAL_SIG >>)
        h3 == input(h2, left)
        h4 == input(h3, right)
    IN  [ hash |-> result(h4), hasher |-> h4 ]

\* ---------------------------------------------------------- build_upper_level
RECURSIVE build_upper_level_loop_skip_last(_, _, _, _)
build_upper_level_loop_skip_last(ns, i, row, h) ==
    IF i + 1 < Len(ns)
    THEN LET r == hash_internal_node(At(ns, i), At(ns, i + 1), h)
         IN  build_upper_level_loop_skip_last(ns, i + 2, Append(row, r.hash), r.hasher)
    ELSE [ row |-> row, hasher |-> h ]

\* The while loop of build_upper_level; i is the code's zero-based index.
RECURSIVE build_upper_level_loop(_, _, _, _)
build_upper_level_loop(ns, i, row, h) ==
    IF i < Len(ns)
    THEN IF i + 1 < Len(ns)
         THEN LET r == hash_internal_node(At(ns, i), At(ns, i + 1), h)
              IN  build_upper_level_loop(ns, i + 2, Append(row, r.hash), r.hasher)
         ELSE LET r == hash_internal_node_with_one_child(At(ns, i), h)
              IN  build_upper_level_loop(ns, i + 1, Append(row, r.hash), r.hasher)
    ELSE [ row |-> row, hasher |-> h ]

build_upper_level(ns, h) ==
    LET r == build_upper_level_loop(ns, 0, <<>>, h)
    IN  IF Len(r.row) > 1 /\ Len(r.row) % 2 # 0
        THEN [ row |-> Append(r.row, r.row[Len(r.row)]), hasher |-> r.hasher ]
        ELSE r

\* ------------------------------------------------------------ next_power_of_2
RECURSIVE BitOr(_, _)
BitOr(a, b) ==
    IF a = 0 THEN b
    ELSE IF b = 0 THEN a
    ELSE (IF a % 2 = 1 \/ b % 2 = 1 THEN 1 ELSE 0) + 2 * BitOr(a \div 2, b \div 2)

\* v >> k
Shr(v, k) == v \div (2 ^ k)

next_power_of_2(n) ==
    LET v0 == n - 1
        v1 == BitOr(v0, Shr(v0, 1))
        v2 == BitOr(v1, Shr(v1, 2))
        v3 == BitOr(v2, Shr(v2, 4))
        v4 == BitOr(v3, Shr(v3, 8))
        v5 == BitOr(v4, Shr(v4, 16))
    IN  v5 + 1

calculate_internal_nodes_count_leaves_minus_1(n) == n - 1

calculate_internal_nodes_count(n) == next_power_of_2(n) - 1

\* --------------------------------------------------------------- formatting
Digits == << "0", "1", "2", "3", "4", "5", "6", "7", "8", "9",
             "a", "b", "c", "d", "e", "f" >>

\* format!("{}", n) for a usize: the decimal digits, most significant first.
RECURSIVE Decimal(_)
Decimal(n) ==
    IF n < 10 THEN << Digits[n + 1] >>
    ELSE Append(Decimal(n \div 10), Digits[(n % 10) + 1])

\* rustc_serialize::hex::ToHex: two lower-case hex digits per byte.
RECURSIVE to_hex(_)
to_hex(bytes) ==
    IF bytes = <<>> THEN <<>>
    ELSE << Digits[(Head(bytes) \div 16) + 1], Digits[(Head(bytes) % 16) + 1] >>
         \o to_hex(Tail(bytes))

\* The message of the assert! in build_with_hasher.
InsufficientInputMsg(count) ==
    << "expected more then 1 value, received " >> \o Decimal(count)

PositionMsg == << "position does not relate to any leaf" >>

\* usize subtraction below zero: a panic in a debug build; in a release build
\* the value wraps and the slice taken next panics (start > end).
UnderflowMsgs == { << "attempt to subtract with overflow" >>,
                   << "slice index starts after it ends" >> }

SliceMsg == << "slice index out of range" >>

IndexMsg == << "index out of bounds" >>

\* --------------------------------------------------------- queries of a tree
root_hash == At(nodes, 0)

root_hash_str == to_hex(At(nodes, 0))

\* --------------------------------------------------------------------- Init
InitWith(inputs) ==
    /\ values \in inputs
    /\ \E prior \in PriorInputs : supplied = [ absorbed |-> prior ]
    /\ hasher = supplied
    /\ nodes = <<>>
    /\ count_internal_nodes = 0
    /\ count_leaves = 0
    /\ parents = <<>>
    /\ upper_level_start = 0
    /\ upper_level_end = 0
    /\ pc = "build"
    /\ panic_msg = <<>>
    /\ position = 0
    /\ value = <<>>
    /\ returned = <<>>
    /\ leaf_read = <<>>
    /\ prev = <<>>

Init == InitWith(InputSequences)

InitTwo == InitWith(InputSequencesTwo)

Panic(msg) ==
    /\ pc' = "panicked"
    /\ panic_msg' = msg

\* ------------------------------------------------------- build_with_hasher
\* assert!(count_leaves > 1, ...)
enough_values_more_than_0(count) == count > 0

enough_values(count) == count > 1

RECURSIVE build_leaves_no_advance(_, _, _, _, _)
build_leaves_no_advance(vs, k, ns, block_idx, h) ==
    IF k > Len(vs) THEN [ nodes |-> ns, hasher |-> h ]
    ELSE LET r == hash_leaf_node(vs[k], h)
         IN  build_leaves_no_advance(vs, k + 1, [ ns EXCEPT ![block_idx + 1] = r.hash ],
                                     block_idx, r.hasher)

\* The `for v in values` loop that hashes the leaves into nodes[block_idx].
RECURSIVE build_leaves(_, _, _, _, _)
build_leaves(vs, k, ns, block_idx, h) ==
    IF k > Len(vs) THEN [ nodes |-> ns, hasher |-> h ]
    ELSE LET r == hash_leaf_node(vs[k], h)
         IN  build_leaves(vs, k + 1, [ ns EXCEPT ![block_idx + 1] = r.hash ],
                          block_idx + 1, r.hasher)

\* build_with_hasher up to the call of build_internal_nodes.
BuildLeaves ==
    /\ pc = "build"
    /\ IF ~ enough_values(Len(values))
       THEN /\ Panic(InsufficientInputMsg(Len(values)))
            /\ UNCHANGED << hasher, nodes, count_internal_nodes, count_leaves >>
       ELSE LET cin == calculate_internal_nodes_count(Len(values))
                empty == [ k \in 1..(cin + Len(values)) |-> <<>> ]
                r == build_leaves(values, 1, empty, cin, hasher)
            IN  /\ count_leaves' = Len(values)
                /\ count_internal_nodes' = cin
                /\ nodes' = r.nodes
                /\ hasher' = r.hasher
                /\ pc' = "internal"
                /\ UNCHANGED panic_msg
    /\ UNCHANGED << values, supplied, parents, upper_level_start, upper_level_end,
                    position, value, returned, leaf_read, prev >>

\* ----------------------------------------------------- build_internal_nodes
\* The statements before the while loop.
BuildFirstLevel ==
    /\ pc = "internal"
    /\ LET r == build_upper_level(
                    SubSeq(nodes, count_internal_nodes + 1, Len(nodes)), hasher)
           len == Len(r.row)
           start == count_internal_nodes - len
           end == start + len
       IN  /\ parents' = r.row
           /\ hasher' = r.hasher
           /\ IF start < 0
              THEN /\ \E msg \in UnderflowMsgs : Panic(msg)
                   /\ UNCHANGED << nodes, upper_level_start, upper_level_end >>
              ELSE IF end > Len(nodes)
              THEN /\ Panic(SliceMsg)
                   /\ UNCHANGED << nodes, upper_level_start, upper_level_end >>
              ELSE /\ upper_level_start' = start
                   /\ upper_level_end' = end
                   /\ nodes' = WriteSlice(nodes, start, end, r.row)
                   /\ pc' = "loop"
                   /\ UNCHANGED panic_msg
    /\ UNCHANGED << values, supplied, count_internal_nodes, count_leaves,
                    position, value, returned, leaf_read, prev >>

\* One pass of `while parents.len() > 1`.
BuildLoop ==
    /\ pc = "loop"
    /\ Len(parents) > 1
    /\ LET r == build_upper_level(parents, hasher)
           len == Len(r.row)
           start == upper_level_start - (len - 1)
           end == start + len
       IN  /\ parents' = r.row
           /\ hasher' = r.hasher
           /\ IF len < 1 \/ start < 0
              THEN /\ \E msg \in UnderflowMsgs : Panic(msg)
                   /\ UNCHANGED << nodes, upper_level_start, upper_level_end >>
              ELSE IF end > Len(nodes)
              THEN /\ Panic(SliceMsg)
                   /\ UNCHANGED << nodes, upper_level_start, upper_level_end >>
              ELSE /\ upper_level_start' = start
                   /\ upper_level_end' = end
                   /\ nodes' = WriteSlice(nodes, start, end, r.row)
                   /\ UNCHANGED << pc, panic_msg >>
    /\ UNCHANGED << values, supplied, count_internal_nodes, count_leaves,
                    position, value, returned, leaf_read, prev >>

\* nodes[0] = parents.remove(0), and build_with_hasher returns the tree.
BuildFinish ==
    /\ pc = "loop"
    /\ Len(parents) <= 1
    /\ nodes' = [ nodes EXCEPT ![1] = Head(parents) ]
    /\ parents' = Tail(parents)
    /\ pc' = "built"
    /\ UNCHANGED << values, supplied, hasher, count_internal_nodes, count_leaves,
                    upper_level_start, upper_level_end, panic_msg,
                    position, value, returned, leaf_read, prev >>

\* ------------------------------------------------------------------- verify
\* assert!(position < self.count_leaves, ...)
position_in_range_inclusive(p, count) == p <= count

position_in_range(p, count) == p < count

\* self.count_internal_nodes + position
leaf_index_without_offset(cin, p) == p

leaf_index(cin, p) == cin + p

Verify(p, v) ==
    /\ pc = "built"
    /\ position' = p
    /\ value' = v
    /\ IF ~ position_in_range(p, count_leaves)
       THEN /\ Panic(PositionMsg)
            /\ returned' = <<>>
            /\ leaf_read' = <<>>
            /\ UNCHANGED hasher
       ELSE LET idx == leaf_index(count_internal_nodes, p)
            IN  /\ leaf_read' = << idx >>
                /\ IF idx >= Len(nodes)
                   THEN /\ Panic(IndexMsg)
                        /\ returned' = <<>>
                        /\ UNCHANGED hasher
                   ELSE LET r == hash_leaf_node(v, hasher)
                        IN  /\ returned' = << At(nodes, idx) = r.hash >>
                            /\ hasher' = r.hasher
                            /\ UNCHANGED << pc, panic_msg >>
    /\ UNCHANGED << values, supplied, nodes, count_internal_nodes, count_leaves, parents,
                    upper_level_start, upper_level_end, prev >>

\* ------------------------------------------------------------ a second build
\* The caller keeps the root of the tree it built and builds another one
\* (bench.rs builds in a loop; the determinism test compares a build's hex
\* string with the one recorded from an earlier build).
BuildAgain ==
    /\ pc = "built"
    /\ prev = <<>>
    /\ prev' = << [ values |-> values, supplied |-> supplied,
                    root_hash |-> root_hash,
                    root_hash_str |-> root_hash_str ] >>
    /\ values' \in InputSequencesTwo
    /\ \E prior \in PriorInputs : supplied' = [ absorbed |-> prior ]
    /\ hasher' = supplied'
    /\ nodes' = <<>>
    /\ count_internal_nodes' = 0
    /\ count_leaves' = 0
    /\ parents' = <<>>
    /\ upper_level_start' = 0
    /\ upper_level_end' = 0
    /\ pc' = "build"
    /\ position' = 0
    /\ value' = <<>>
    /\ returned' = <<>>
    /\ leaf_read' = <<>>
    /\ UNCHANGED panic_msg

\* One tree: it is built, then verify is called any number of times.
Next ==
    \/ BuildLeaves
    \/ BuildFirstLevel
    \/ BuildLoop
    \/ BuildFinish
    \/ \E p \in Positions, v \in Blocks : Verify(p, v)

Spec == Init /\ [][Next]_vars

\* Two trees built one after the other, the first one's root kept.
NextTwo ==
    \/ BuildLeaves
    \/ BuildFirstLevel
    \/ BuildLoop
    \/ BuildFinish
    \/ BuildAgain

SpecTwo == InitTwo /\ [][NextTwo]_vars

\* ======================================================================
\* The reference construction of the root (spec 4.1, 4.2), written over the
\* digests directly: no hasher state, no node vector.
RefLeaf(b) == << 0 >> \o b

RefInternal(a, b) == << 1 >> \o a \o b

RefParents(level) ==
    [ k \in 1..((Len(level) + 1) \div 2) |->
        IF 2 * k <= Len(level)
        THEN RefInternal(level[2 * k - 1], level[2 * k])
        ELSE RefInternal(level[2 * k - 1], level[2 * k - 1]) ]

RefPad(row) ==
    IF Len(row) > 1 /\ Len(row) % 2 = 1 THEN Append(row, row[Len(row)]) ELSE row

RECURSIVE RefReduce(_)
RefReduce(level) ==
    IF Len(level) = 1 THEN level[1] ELSE RefReduce(RefPad(RefParents(level)))

RefRoot(vs) == RefReduce(RefPad(RefParents([ k \in 1..Len(vs) |-> RefLeaf(vs[k]) ])))

\* A verify call has been made on the current tree.
Verified == value # <<>>

\* Both builds have returned a tree.
BothBuilt == pc = "built" /\ prev # <<>>

DifferingBlocks == { k \in 1..Len(values) : prev[1].values[k] # values[k] }

\* ----------------------------------------------------------------------
\* C1: on a tree built from n >= 2 blocks, every verify call that returns
\* has a position below n and returns true exactly when the value is the
\* block the tree was built from at that position, whatever verify calls
\* were made before it.
VerifySound ==
    (pc = "built" /\ returned # <<>>) =>
        /\ Len(values) >= 2
        /\ position < Len(values)
        /\ returned[1] = (value = values[position + 1])

\* A verify of a wrong block at the last position of a 5-leaf tree, made
\* after other verify calls by a hasher that was handed over with input
\* already absorbed.
VerifySoundWitness ==
    /\ pc = "built"
    /\ Len(values) = 5
    /\ position = 4
    /\ returned = << FALSE >>
    /\ value # values[5]
    /\ supplied.absorbed # <<>>

\* ----------------------------------------------------------------------
\* C2: for n >= 2 blocks root_hash() is the digest of the reference
\* construction over the blocks in input order.
RootIsReference ==
    pc = "built" => root_hash = RefRoot(values)

\* A built tree over 5 blocks, not all equal: a level of 3 parents is padded.
RootIsReferenceWitness ==
    /\ pc = "built"
    /\ Len(values) = 5
    /\ values[1] # values[5]
    /\ root_hash = RefRoot(values)

\* ----------------------------------------------------------------------
\* C3: build with 0 or 1 values panics with a message that ends in the
\* number of values received, and no tree is made.
InsufficientInputPanics ==
    Len(values) <= 1 =>
        /\ pc \in { "build", "panicked" }
        /\ nodes = <<>>
        /\ pc = "panicked" =>
              panic_msg = << "expected more then 1 value, received ",
                             IF Len(values) = 0 THEN "0" ELSE "1" >>

\* build was called with exactly one value and has panicked.
InsufficientInputWitness ==
    /\ Len(values) = 1
    /\ pc = "panicked"
    /\ panic_msg[2] = "1"

\* ----------------------------------------------------------------------
\* C4: verify with a position >= the number of leaves panics on its
\* assertion, returns nothing and reads no node; a verify call never reads
\* a node outside the leaf region.
OutOfRangePanics ==
    /\ (Verified /\ position >= Len(values)) =>
            /\ pc = "panicked"
            /\ panic_msg = << "position does not relate to any leaf" >>
            /\ returned = <<>>
            /\ leaf_read = <<>>
    /\ \A k \in 1..Len(leaf_read) :
            /\ count_internal_nodes <= leaf_read[k]
            /\ leaf_read[k] < count_internal_nodes + count_leaves
            /\ leaf_read[k] < Len(nodes)

\* verify was called with position = count_leaves, the first one out of range.
OutOfRangeWitness ==
    /\ Verified
    /\ count_leaves = 3
    /\ position = 3
    /\ pc = "panicked"

\* ----------------------------------------------------------------------
\* C5: for n >= 2 blocks the build never panics: the subtractions that give
\* upper_level_start stay >= 0, every slice written lies inside
\* [0, count_internal_nodes), and the level loop ends with one digest.
BuildCompletes ==
    /\ (pc = "panicked" /\ Len(values) >= 2) =>
            (Verified /\ panic_msg = << "position does not relate to any leaf" >>)
    /\ pc \in { "loop", "built" } =>
            /\ 0 <= upper_level_start
            /\ upper_level_start < upper_level_end
            /\ upper_level_end <= count_internal_nodes
            /\ upper_level_end - upper_level_start
                 = (IF pc = "loop" THEN Len(parents) ELSE 1)
    /\ pc = "loop" => Len(parents) >= 1
    /\ pc = "built" => (parents = <<>> /\ Len(nodes) = count_internal_nodes + Len(values))

\* A tree over 5 blocks (odd, not a power of two) has been returned.
BuildCompletesWitness ==
    /\ pc = "built"
    /\ count_leaves = 5
    /\ count_internal_nodes = 7

\* ----------------------------------------------------------------------
\* C6: two builds from the same input sequence give the same root hash and
\* the same hex string, whatever the two hashers had absorbed before.
Deterministic ==
    (BothBuilt /\ prev[1].values = values) =>
        /\ prev[1].root_hash = root_hash
        /\ prev[1].root_hash_str = root_hash_str

\* The same 3 blocks built twice, by hashers that had absorbed different input.
DeterministicWitness ==
    /\ BothBuilt
    /\ prev[1].values = values
    /\ Len(values) = 3
    /\ prev[1].supplied # supplied

\* ----------------------------------------------------------------------
\* C7: two input sequences of the same length that differ in exactly one
\* block give different root hashes.
Sensitive ==
    (BothBuilt /\ Len(prev[1].values) = Len(values)
               /\ Cardinality(DifferingBlocks) = 1) =>
        prev[1].root_hash # root_hash

\* Two 5-block inputs that differ in the last, unpaired, block only.
SensitiveWitness ==
    /\ BothBuilt
    /\ Len(prev[1].values) = 5
    /\ Len(values) = 5
    /\ DifferingBlocks = { 5 }

\* ----------------------------------------------------------------------
\* C8 (as claimed): the node vector holds the tree in breadth-first order:
\* the last n entries are the leaf digests in input order, every internal
\* position holds the internal hash of the digests at its child positions
\* 2i+1 and 2i+2 (of the left one with itself when only it exists), and no
\* internal position is empty.
BreadthFirstLayout ==
    pc = "built" =>
        /\ \A k \in 0..(count_leaves - 1) :
              At(nodes, count_internal_nodes + k) = RefLeaf(values[k + 1])
        /\ \A i \in 0..(count_internal_nodes - 1) :
              /\ At(nodes, i) # <<>>
              /\ 2 * i + 2 < Len(nodes) =>
                    At(nodes, i) = RefInternal(At(nodes, 2 * i + 1), At(nodes, 2 * i + 2))
              /\ (2 * i + 1 < Len(nodes) /\ 2 * i + 2 >= Len(nodes)) =>
                    At(nodes, i) = RefInternal(At(nodes, 2 * i + 1), At(nodes, 2 * i + 1))

\* ----------------------------------------------------------------------
\* C9 (as claimed): every level of the tree, the leaf level included, has an
\* even number of nodes, except the level that is the single root.
EveryLevelEven ==
    /\ pc \in { "internal", "loop", "built" } => count_leaves % 2 = 0
    /\ pc = "loop" => (Len(parents) = 1 \/ Len(parents) % 2 = 0)

\* ----------------------------------------------------------------------
\* C10 (as claimed): two builds return the same root hash only if their
\* input sequences are equal in length and in every block.
RootCommitsToSequence ==
    (BothBuilt /\ prev[1].root_hash = root_hash) => prev[1].values = values

\* C10 (amended): two builds of input sequences of the same length return
\* the same root hash only if the sequences are equal in every block.
RootCommitsAtEqualLength ==
    (BothBuilt /\ Len(prev[1].values) = Len(values)
               /\ prev[1].root_hash = root_hash) =>
        prev[1].values = values

\* Two 4-block inputs that differ in more than one block, with different roots.
RootCommitsWitness ==
    /\ BothBuilt
    /\ Len(prev[1].values) = 4
    /\ Len(values) = 4
    /\ Cardinality(DifferingBlocks) >= 2
    /\ prev[1].root_hash # root_hash

====
